---------------------------- MODULE Spec2Model ----------------------------
(***************************************************************************)
(* Model of austin_911_dashboard.py: the cached loader load_data, the      *)
(* aggregation create_district_summary, the pivot of                       *)
(* create_anomaly_heatmap and the top-to-bottom render pass main.          *)
(*                                                                         *)
(* Conventions.                                                            *)
(*  - An optional value (a CSV cell that may be empty, a Python value that *)
(*    may be None, an aggregate that may be NaN) is a sequence of length   *)
(*    0 or 1: << >> is the missing value, <<v>> the present one.           *)
(*  - Every column that passes through .round(2) is kept in hundredths:    *)
(*    the integer h stands for the decimal h/100.                          *)
(*  - A table is a sequence of rows (records), in file order.              *)
(***************************************************************************)
EXTENDS Integers, Sequences, FiniteSets, TLC

VARIABLES
    zip,               \* APD_911_Final_Processed.csv.zip on disk
    csv,               \* APD_911_Final_Processed.csv on disk
    anom,              \* DBSCAN_Anomalies.csv on disk
    pkl,               \* anomaly_summary.pkl on disk
    cache,             \* st.cache_data entry of load_data: << >> or <<entry>>
    pc,                \* position of main in the current render
    out,               \* elements emitted by the current render, in order
    df,                \* main's local df: None or <<table>>
    dbscan_anomalies,  \* main's local dbscan_anomalies
    anomaly_summary,   \* main's local anomaly_summary
    district_summary,  \* main's local district_summary
    narration,         \* the Key Findings values of the current render
    heatmap_data,      \* the pivot built by create_anomaly_heatmap
    renders,           \* number of script runs started so far
    loads              \* history of load_data calls, one record per call

vars == << zip, csv, anom, pkl, cache, pc, out, df, dbscan_anomalies,
           anomaly_summary, district_summary, narration, heatmap_data,
           renders, loads >>

-----------------------------------------------------------------------------
(* Bounds of the model *)

MaxRows == 3          \* rows of a call-record table given to the summarizer
MaxDistrict == 2      \* district identifiers are 1..MaxDistrict
MaxAnomRows == 3      \* rows of an anomaly-record table given to the pivot
MaxHour == 2          \* hours are 1..MaxHour
MaxRenders == 2       \* script runs in one process

Districts == 1..MaxDistrict
Hours == 1..MaxHour

None == << >>
Some(x) == << x >>

-----------------------------------------------------------------------------
(* Generic helpers *)

RECURSIVE SumSeq(_)
SumSeq(s) == IF s = << >> THEN 0 ELSE Head(s) + SumSeq(Tail(s))

\* The elements of a set of integers as an ascending sequence.
RECURSIVE Ascending(_)
Ascending(S) ==
    IF S = {} THEN << >>
    ELSE LET m == CHOOSE x \in S : \A y \in S : x <= y
         IN  << m >> \o Ascending(S \ {m})

\* All sequences over S of length 0..n.
SeqUpTo(S, n) == UNION { [1..k -> S] : k \in 0..n }

\* v/d rounded to the nearest integer, a tie going to the even neighbour
\* (numpy's rounding, which DataFrame.round uses); v >= 0, d > 0.
RoundDiv(v, d) ==
    LET q == v \div d
        r == v % d
    IN  IF 2 * r > d THEN q + 1
        ELSE IF 2 * r = d THEN q + (q % 2)
        ELSE q

\* num/den rounded to two decimals, in hundredths.
Round2(num, den) == RoundDiv(num * 100, den)

-----------------------------------------------------------------------------
(* create_district_summary *)

\* The values of an optional column that are present, in row order.
Present(col) ==
    LET kept == SelectSeq(col, LAMBDA c : c # None)
    IN  [i \in 1..Len(kept) |-> kept[i][1]]

Column(rows, f) == [i \in 1..Len(rows) |-> rows[i][f]]

\* 'mean' of a numeric column without missing values, then .round(2).
MeanRound2(vals) == Round2(SumSeq(vals), Len(vals))

\* 'mean' of an optional column: missing values are skipped, NaN if none is left.
MeanOpt(col) ==
    LET v == Present(col)
    IN  IF v = << >> THEN None ELSE Some(MeanRound2(v))

\* 'median' of an optional column, then .round(2).
MedianOpt(col) ==
    LET v == SortSeq(Present(col), LAMBDA a, b : a < b)
        n == Len(v)
    IN  IF n = 0 THEN None
        ELSE IF n % 2 = 1 THEN Some(v[(n + 1) \div 2] * 100)
        ELSE Some(Round2(v[n \div 2] + v[n \div 2 + 1], 2))

\* 'count' of a column: the number of its non-missing values.
CountOpt(col) == Len(Present(col))

\* 'sum' of a boolean column.
SumBool(col) == Len(SelectSeq(col, LAMBDA b : b))

\* SummaryRow with the percentage taken from the mean before it is rounded.
SummaryRowRawPercentage(d, g) ==
    [ council_district    |-> d,
      avg_response_sec    |-> MeanOpt(Column(g, "response_time_sec")),
      median_response_sec |-> MedianOpt(Column(g, "response_time_sec")),
      total_calls         |-> CountOpt(Column(g, "response_time_sec")),
      avg_response_min    |-> MeanRound2(Column(g, "response_time_min")),
      total_delayed       |-> SumBool(Column(g, "delayed")),
      delay_rate          |-> Round2(SumBool(Column(g, "delayed")), Len(g)),
      is_hotspot          |-> g[1].is_hotspot,
      delay_percentage    |-> RoundDiv(SumBool(Column(g, "delayed")) * 10000, Len(g)) ]

\* The aggregate row of one group; g is the group's rows in table order.
\* total_calls is a whole number, which .round(2) leaves as it is.
SummaryRow(d, g) ==
    LET delay_rate == Round2(SumBool(Column(g, "delayed")), Len(g))
    IN  [ council_district    |-> d,
          avg_response_sec    |-> MeanOpt(Column(g, "response_time_sec")),
          median_response_sec |-> MedianOpt(Column(g, "response_time_sec")),
          total_calls         |-> CountOpt(Column(g, "response_time_sec")),
          avg_response_min    |-> MeanRound2(Column(g, "response_time_min")),
          total_delayed       |-> SumBool(Column(g, "delayed")),
          delay_rate          |-> delay_rate,
          is_hotspot          |-> g[1].is_hotspot,
          delay_percentage    |-> delay_rate * 100 ]

\* groupby('council_district'): one group per key present, keys ascending.
GroupKeys(t) == Ascending({ t[i].council_district : i \in 1..Len(t) })

create_district_summary(t) ==
    LET keys == GroupKeys(t)
    IN  [ k \in 1..Len(keys) |->
            SummaryRow(keys[k],
                       SelectSeq(t, LAMBDA r : r.council_district = keys[k])) ]

-----------------------------------------------------------------------------
(* Key Findings of the Percentile-Based Hotspots tab (main) *)

\* Series.idxmax(): the first position holding the largest value.
idxmax(col) ==
    CHOOSE i \in 1..Len(col) :
        /\ \A j \in 1..Len(col) : col[j] <= col[i]
        /\ \A j \in 1..(i - 1) : col[j] < col[i]

\* Series.idxmin(): the first position holding the smallest value.
idxmin(col) ==
    CHOOSE i \in 1..Len(col) :
        /\ \A j \in 1..Len(col) : col[j] >= col[i]
        /\ \A j \in 1..(i - 1) : col[j] > col[i]

\* The format ':.1f' of a value kept in hundredths: the value in tenths.
Format1(h) == RoundDiv(h, 10)

slowest_district(ds) == ds[idxmax(Column(ds, "avg_response_min"))]

fastest_district(ds) == ds[idxmin(Column(ds, "avg_response_min"))]

\* One '**... District:**' entry of the narration: what the text shows of a row.
SlowestEntry(row) ==
    [ district |-> row.council_district,
      avg      |-> Format1(row.avg_response_min),
      delay    |-> Format1(row.delay_percentage) ]

\* FastestEntry showing the delay rate where the percentage belongs.
FastestEntryRate(row) ==
    [ district |-> row.council_district,
      avg      |-> Format1(row.avg_response_min),
      delay    |-> Format1(row.delay_rate) ]

FastestEntry(row) ==
    [ district |-> row.council_district,
      avg      |-> Format1(row.avg_response_min),
      delay    |-> Format1(row.delay_percentage) ]

\* district_summary[district_summary['is_hotspot']]['council_district'].tolist()
HotspotDistricts(ds) ==
    Column(SelectSeq(ds, LAMBDA r : r.is_hotspot), "council_district")

\* The values interpolated into the Key Findings text; ds is not empty.
KeyFindings(ds) ==
    LET slow == slowest_district(ds)
        fast == fastest_district(ds)
    IN  [ slowest  |-> SlowestEntry(slow),
          fastest  |-> FastestEntry(fast),
          hotspots |-> HotspotDistricts(ds),
          impact   |-> Format1(slow.avg_response_min - fast.avg_response_min) ]

-----------------------------------------------------------------------------
(* create_anomaly_heatmap: the pivot_table call *)

RECURSIVE GCD(_, _)
GCD(a, b) == IF b = 0 THEN a ELSE GCD(b, a % b)

\* The exact quotient num/den as a fraction in lowest terms (den > 0).
Rat(num, den) ==
    LET g == GCD(num, den)
    IN  IF num = 0 THEN [num |-> 0, den |-> 1]
        ELSE [num |-> num \div g, den |-> den \div g]

\* CellMean with aggfunc='sum'.
CellSum(vals) == Rat(SumSeq(vals), 1)

\* aggfunc defaults to 'mean': the mean of the values of a group.
CellMean(vals) == Rat(SumSeq(vals), Len(vals))

\* The rows pivot_table aggregates for the pair (d, h).
PairRows(t, d, h) == SelectSeq(t, LAMBDA r : r.district = d /\ r.hour = h)

\* The (district, hour) groups of the table.
Pairs(t) == { << t[i].district, t[i].hour >> : i \in 1..Len(t) }

\* pivot_table(index='district', columns='hour', values='delay_rate', fill_value=0)
Pivot(t) ==
    LET kept == Pairs(t)
        idx  == { p[1] : p \in kept }
        cols == { p[2] : p \in kept }
    IN  [ index   |-> Ascending(idx),
          columns |-> Ascending(cols),
          cell    |-> [ p \in idx \X cols |->
                          IF p \in kept
                          THEN CellMean(Column(PairRows(t, p[1], p[2]),
                                               "delay_rate"))
                          ELSE Rat(0, 1) ] ]

-----------------------------------------------------------------------------
(* Input domains *)

\* The hotspot flag is attached upstream at district level.
HotspotFlag(d) == d = MaxDistrict

CallRows ==
    { [ council_district  |-> d,
        response_time_sec |-> s,
        response_time_min |-> m,
        delayed           |-> b,
        is_hotspot        |-> HotspotFlag(d) ] :
      d \in Districts, s \in {None, Some(60)}, m \in {1, 2}, b \in BOOLEAN }

CallTables == SeqUpTo(CallRows, MaxRows)

\* delay_rate is a fraction kept in hundredths.
AnomRows ==
    { [ district |-> d, hour |-> h, delay_rate |-> r, avg_response_min |-> 900 ] :
      d \in Districts, h \in Hours, r \in {0, 25, 75} }

AnomTables == SeqUpTo(AnomRows, MaxAnomRows)

CallRow(d, m, b) ==
    [ council_district |-> d, response_time_sec |-> Some(60),
      response_time_min |-> m, delayed |-> b, is_hotspot |-> HotspotFlag(d) ]

AnomRow(d, h, r) ==
    [ district |-> d, hour |-> h, delay_rate |-> r, avg_response_min |-> 900 ]

\* Contents the files on disk take in the render model (each holds a record).
FileCallTables ==
    { << CallRow(1, 2, TRUE) >>,
      << CallRow(1, 1, FALSE), CallRow(MaxDistrict, 2, TRUE), CallRow(1, 2, TRUE) >> }

ZipCallTable == << CallRow(MaxDistrict, 1, FALSE), CallRow(1, 1, TRUE) >>

FileAnomTables == { << AnomRow(1, 1, 75), AnomRow(MaxDistrict, MaxHour, 25) >> }

\* The object pickled in anomaly_summary.pkl: the summary dict, or None.
SummaryObject ==
    Some([ top_3_districts |-> << 1, MaxDistrict, 1 >> ])

PickledObjects == { SummaryObject, None }

\* A file on disk: missing, present but unreadable, or present with content.
Absent == [st |-> "absent", data |-> None]
Corrupt == [st |-> "corrupt", data |-> None]
File(content) == [st |-> "ok", data |-> Some(content)]

ZipStates == { Absent, Corrupt, File(ZipCallTable) }
CsvStates == { Absent, Corrupt, File(ZipCallTable) } \cup { File(t) : t \in FileCallTables }
AnomStates == { Absent, Corrupt } \cup { File(t) : t \in FileAnomTables }
PklStates == { Absent, Corrupt } \cup { File(o) : o \in PickledObjects }

-----------------------------------------------------------------------------
(* load_data *)

NullTriple == << None, None, None >>

\* ShouldExtract without the test that the CSV is missing.
ShouldExtractAlways(z, c) == z.st # "absent"

\* os.path.exists(...zip) and not os.path.exists(...csv)
ShouldExtract(z, c) == z.st # "absent" /\ c.st = "absent"

\* The CSV on disk after the extraction step (extractall writes the member).
AfterExtract(z, c) ==
    IF ShouldExtract(z, c) /\ z.st = "ok" THEN File(z.data[1]) ELSE c

\* LoadBody with one try per artifact: an artifact that fails is None and the
\* others are still returned.
LoadBodyPerArtifact(z, c, a, p) ==
    LET extract == ShouldExtract(z, c)
        c2      == AfterExtract(z, c)
        failed  == \/ (extract /\ z.st # "ok")
                   \/ c2.st # "ok"
                   \/ a.st # "ok"
                   \/ p.st # "ok"
    IN  [ value     |-> << IF c2.st = "ok" /\ ~(extract /\ z.st # "ok")
                              THEN Some(c2.data[1]) ELSE None,
                           IF a.st = "ok" THEN Some(a.data[1]) ELSE None,
                           IF p.st = "ok" THEN p.data[1] ELSE None >>,
          errors    |-> IF failed THEN << "error_load" >> ELSE << >>,
          extracted |-> extract,
          csv       |-> c2 ]

\* The body of load_data run on the files z, c, a, p. Any failing step raises,
\* and the except clause reports one error and returns the null triple.
LoadBody(z, c, a, p) ==
    LET extract == ShouldExtract(z, c)
        c2      == AfterExtract(z, c)
        failed  == \/ (extract /\ z.st # "ok")
                   \/ c2.st # "ok"
                   \/ a.st # "ok"
                   \/ p.st # "ok"
    IN  [ value     |-> IF failed THEN NullTriple
                        ELSE << Some(c2.data[1]), Some(a.data[1]), p.data[1] >>,
          errors    |-> IF failed THEN << "error_load" >> ELSE << >>,
          extracted |-> extract,
          csv       |-> c2 ]

\* CachedLoad without the decorator: every call runs the body.
UncachedLoad(entry, z, c, a, p) ==
    LET r == LoadBody(z, c, a, p)
    IN  [ value |-> r.value, errors |-> r.errors,
          extracted |-> r.extracted, csv |-> r.csv, hit |-> FALSE ]

\* @st.cache_data: a call finds the entry of an earlier call and returns its
\* value, replaying the elements the earlier call emitted; otherwise the body
\* runs and its outcome is stored.
CachedLoad(entry, z, c, a, p) ==
    IF entry # None
    THEN [ value |-> entry[1].value, errors |-> entry[1].errors,
           extracted |-> FALSE, csv |-> c, hit |-> TRUE ]
    ELSE LET r == LoadBody(z, c, a, p)
         IN  [ value |-> r.value, errors |-> r.errors,
               extracted |-> r.extracted, csv |-> r.csv, hit |-> FALSE ]

-----------------------------------------------------------------------------
(* main: one render is one run of the script from top to bottom *)

Tab1Elements ==
    << "tab1_header", "tab1_metrics", "tab1_chart", "tab1_table", "tab1_findings" >>

Tab2Elements ==
    << "tab2_header", "tab2_metrics", "tab2_rankings", "tab2_heatmap",
       "tab2_details", "tab2_insights" >>

FooterElements == << "footer_rule", "footer_timestamp", "footer_source" >>

Init ==
    /\ zip \in ZipStates
    /\ csv \in CsvStates
    /\ anom \in AnomStates
    /\ pkl \in PklStates
    /\ cache = None
    /\ pc = "start"
    /\ out = << >>
    /\ df = None
    /\ dbscan_anomalies = None
    /\ anomaly_summary = None
    /\ district_summary = << >>
    /\ narration = None
    /\ heatmap_data = None
    /\ renders = 1
    /\ loads = << >>

\* Lines 151-153.
Header ==
    /\ pc = "start"
    /\ out' = out \o << "header" >>
    /\ pc' = "load"
    /\ UNCHANGED << zip, csv, anom, pkl, cache, df, dbscan_anomalies,
                    anomaly_summary, district_summary, narration, heatmap_data,
                    renders, loads >>

\* Lines 156-157: the call of load_data (load_austin_districts returns None).
LoadData ==
    /\ pc = "load"
    /\ LET r == CachedLoad(cache, zip, csv, anom, pkl)
       IN  /\ df' = r.value[1]
           /\ dbscan_anomalies' = r.value[2]
           /\ anomaly_summary' = r.value[3]
           /\ out' = out \o r.errors
           /\ csv' = r.csv
           /\ cache' = Some([value |-> r.value, errors |-> r.errors])
           /\ loads' = Append(loads,
                  [ hit |-> r.hit, extracted |-> r.extracted, value |-> r.value,
                    errors |-> r.errors ])
    /\ pc' = "guard"
    /\ UNCHANGED << zip, anom, pkl, district_summary, narration, heatmap_data,
                    renders >>

\* GuardHalt without the return: the error is shown and the pass goes on to
\* the footer.
GuardHaltFallsThrough ==
    /\ pc = "guard"
    /\ df = None
    /\ out' = out \o << "error_main" >>
    /\ pc' = "footer"
    /\ UNCHANGED << zip, csv, anom, pkl, cache, df, dbscan_anomalies,
                    anomaly_summary, district_summary, narration, heatmap_data,
                    renders, loads >>

\* Lines 159-161: the primary table is unavailable.
GuardHalt ==
    /\ pc = "guard"
    /\ df = None
    /\ out' = out \o << "error_main" >>
    /\ pc' = "done"
    /\ UNCHANGED << zip, csv, anom, pkl, cache, df, dbscan_anomalies,
                    anomaly_summary, district_summary, narration, heatmap_data,
                    renders, loads >>

\* Lines 163-171: sidebar, then the district summary.
Sidebar ==
    /\ pc = "guard"
    /\ df # None
    /\ out' = out \o << "sidebar", "create_district_summary" >>
    /\ district_summary' = create_district_summary(df[1])
    /\ pc' = "tab1"
    /\ UNCHANGED << zip, csv, anom, pkl, cache, df, dbscan_anomalies,
                    anomaly_summary, narration, heatmap_data, renders, loads >>

\* Lines 173-238: the Percentile-Based Hotspots tab.
Tab1 ==
    /\ pc = "tab1"
    /\ out' = out \o Tab1Elements
    /\ narration' = Some(KeyFindings(district_summary))
    /\ pc' = "tab2"
    /\ UNCHANGED << zip, csv, anom, pkl, cache, df, dbscan_anomalies,
                    anomaly_summary, district_summary, heatmap_data, renders,
                    loads >>

\* Lines 240-246: the guard of the ML Anomaly Detection tab returns from main.
Tab2Halt ==
    /\ pc = "tab2"
    /\ (dbscan_anomalies = None \/ anomaly_summary = None)
    /\ out' = out \o << "tab2_header", "error_tab2" >>
    /\ pc' = "done"
    /\ UNCHANGED << zip, csv, anom, pkl, cache, df, dbscan_anomalies,
                    anomaly_summary, district_summary, narration, heatmap_data,
                    renders, loads >>

\* Lines 240-321: the ML Anomaly Detection tab.
Tab2 ==
    /\ pc = "tab2"
    /\ dbscan_anomalies # None
    /\ anomaly_summary # None
    /\ out' = out \o Tab2Elements
    /\ heatmap_data' = Some(Pivot(dbscan_anomalies[1]))
    /\ pc' = "footer"
    /\ UNCHANGED << zip, csv, anom, pkl, cache, df, dbscan_anomalies,
                    anomaly_summary, district_summary, narration, renders, loads >>

\* Lines 323-326.
Footer ==
    /\ pc = "footer"
    /\ out' = out \o FooterElements
    /\ pc' = "done"
    /\ UNCHANGED << zip, csv, anom, pkl, cache, df, dbscan_anomalies,
                    anomaly_summary, district_summary, narration, heatmap_data,
                    renders, loads >>

\* Lines 328-329: the framework runs the script again in the same process.
Rerun ==
    /\ pc = "done"
    /\ renders < MaxRenders
    /\ renders' = renders + 1
    /\ pc' = "start"
    /\ out' = << >>
    /\ df' = None
    /\ dbscan_anomalies' = None
    /\ anomaly_summary' = None
    /\ district_summary' = << >>
    /\ narration' = None
    /\ heatmap_data' = None
    /\ UNCHANGED << zip, csv, anom, pkl, cache, loads >>

\* The environment replaces, damages or removes files before a render starts.
FsChange ==
    /\ pc = "start"
    /\ \E z \in ZipStates, c \in CsvStates, a \in AnomStates, p \in PklStates :
          /\ << z, c, a, p >> # << zip, csv, anom, pkl >>
          /\ zip' = z /\ csv' = c /\ anom' = a /\ pkl' = p
    /\ UNCHANGED << cache, pc, out, df, dbscan_anomalies, anomaly_summary,
                    district_summary, narration, heatmap_data, renders, loads >>

Next ==
    \/ Header
    \/ LoadData
    \/ GuardHalt
    \/ Sidebar
    \/ Tab1
    \/ Tab2Halt
    \/ Tab2
    \/ Footer
    \/ Rerun
    \/ FsChange

Spec == Init /\ [][Next]_vars

-----------------------------------------------------------------------------
(* The summarizer and the Key Findings on every call-record table *)

InitSummary ==
    /\ zip = Absent /\ csv = Absent /\ anom = Absent /\ pkl = Absent
    /\ cache = None
    /\ pc = "summary_in"
    /\ out = << >>
    /\ df \in { Some(t) : t \in CallTables }
    /\ dbscan_anomalies = None
    /\ anomaly_summary = None
    /\ district_summary = << >>
    /\ narration = None
    /\ heatmap_data = None
    /\ renders = 1
    /\ loads = << >>

\* Line 168.
ApplySummary ==
    /\ pc = "summary_in"
    /\ district_summary' = create_district_summary(df[1])
    /\ pc' = "summary_out"
    /\ UNCHANGED << zip, csv, anom, pkl, cache, out, df, dbscan_anomalies,
                    anomaly_summary, narration, heatmap_data, renders, loads >>

\* Lines 223-238, on a summary that has a row.
ApplyKeyFindings ==
    /\ pc = "summary_out"
    /\ district_summary # << >>
    /\ narration' = Some(KeyFindings(district_summary))
    /\ pc' = "findings_out"
    /\ UNCHANGED << zip, csv, anom, pkl, cache, out, df, dbscan_anomalies,
                    anomaly_summary, district_summary, heatmap_data, renders,
                    loads >>

NextSummary ==
    \/ ApplySummary
    \/ ApplyKeyFindings

SpecSummary == InitSummary /\ [][NextSummary]_vars

-----------------------------------------------------------------------------
(* The pivot on every anomaly-record table *)

InitHeatmap ==
    /\ zip = Absent /\ csv = Absent /\ anom = Absent /\ pkl = Absent
    /\ cache = None
    /\ pc = "pivot_in"
    /\ out = << >>
    /\ df = None
    /\ dbscan_anomalies \in { Some(t) : t \in AnomTables }
    /\ anomaly_summary = None
    /\ district_summary = << >>
    /\ narration = None
    /\ heatmap_data = None
    /\ renders = 1
    /\ loads = << >>

\* Lines 132-137.
ApplyPivot ==
    /\ pc = "pivot_in"
    /\ heatmap_data' = Some(Pivot(dbscan_anomalies[1]))
    /\ pc' = "pivot_out"
    /\ UNCHANGED << zip, csv, anom, pkl, cache, out, df, dbscan_anomalies,
                    anomaly_summary, district_summary, narration, renders, loads >>

NextHeatmap == ApplyPivot

SpecHeatmap == InitHeatmap /\ [][NextHeatmap]_vars

-----------------------------------------------------------------------------
(* Properties *)

Contains(seq, x) == \E i \in 1..Len(seq) : seq[i] = x

ErrorElements == { "error_load", "error_main", "error_tab2" }

ErrorCount(seq) == Len(SelectSeq(seq, LAMBDA e : e \in ErrorElements))

\* seq ends with the elements of tail.
EndsWith(seq, tail) ==
    /\ Len(seq) >= Len(tail)
    /\ \A i \in 1..Len(tail) : seq[Len(seq) - Len(tail) + i] = tail[i]

\* Every element of part occurs in seq.
ContainsAll(seq, part) == \A i \in 1..Len(part) : Contains(seq, part[i])

Summarized == pc \in { "summary_out", "findings_out" }

DistrictsOf(t) == { t[i].council_district : i \in 1..Len(t) }

RowsOfDistrict(t, d) == Cardinality({ i \in 1..Len(t) : t[i].council_district = d })

\* C1 (as claimed): the summary has one row per distinct district of the
\* input, and each row's total_calls is the number of input rows of that
\* district, also when some rows have no response_time_sec.
C1_TotalCallsIsRowCount ==
    Summarized =>
        /\ Len(district_summary) = Cardinality(DistrictsOf(df[1]))
        /\ \A k \in 1..Len(district_summary) :
              district_summary[k].total_calls =
                  RowsOfDistrict(df[1], district_summary[k].council_district)

\* C5: in every row of the summary, delay_percentage is that row's delay_rate
\* multiplied by 100.
C5_DelayPercentage ==
    Summarized =>
        \A k \in 1..Len(district_summary) :
            district_summary[k].delay_percentage = district_summary[k].delay_rate * 100

\* A summary row whose delay rate was rounded (a third of the calls delayed).
C5_Witness ==
    /\ Summarized
    /\ \E k \in 1..Len(district_summary) :
          /\ district_summary[k].delay_rate = 33
          /\ district_summary[k].delay_percentage = 3300

\* C8: when the table holds exactly one district, the slowest and the fastest
\* entry of the Key Findings name that district and show the same average
\* response and the same delay percentage, and the reported difference is 0.
C8_SingleDistrictFindings ==
    (pc = "findings_out" /\ Cardinality(DistrictsOf(df[1])) = 1) =>
        /\ narration[1].slowest.district \in DistrictsOf(df[1])
        /\ narration[1].fastest.district = narration[1].slowest.district
        /\ narration[1].fastest.avg = narration[1].slowest.avg
        /\ narration[1].fastest.delay = narration[1].slowest.delay
        /\ narration[1].impact = 0

\* A one-district table of several calls, some of them delayed.
C8_Witness ==
    /\ pc = "findings_out"
    /\ Cardinality(DistrictsOf(df[1])) = 1
    /\ Len(df[1]) >= 2
    /\ narration[1].slowest.delay > 0
    /\ narration[1].slowest.avg = 15

Pivoted == pc = "pivot_out"

AnomDistricts(t) == { t[i].district : i \in 1..Len(t) }

AnomHours(t) == { t[i].hour : i \in 1..Len(t) }

\* The grid has one row per distinct district and one column per distinct
\* hour, and a listed combination that no input row carries holds 0.
GridShape(t, grid) ==
    /\ grid.index = Ascending(AnomDistricts(t))
    /\ grid.columns = Ascending(AnomHours(t))
    /\ DOMAIN grid.cell = AnomDistricts(t) \X AnomHours(t)
    /\ \A p \in AnomDistricts(t) \X AnomHours(t) :
          (\A i \in 1..Len(t) : << t[i].district, t[i].hour >> # p)
              => grid.cell[p] = [num |-> 0, den |-> 1]

RowsOfPair(t, p) == { i \in 1..Len(t) : << t[i].district, t[i].hour >> = p }

RECURSIVE SumRates(_, _)
SumRates(t, I) ==
    IF I = {} THEN 0
    ELSE LET i == CHOOSE j \in I : TRUE
         IN  t[i].delay_rate + SumRates(t, I \ {i})

-----------------------------------------------------------------------------
(* Properties of the render pass and of the loader *)

LastLoad == loads[Len(loads)]

\* C2 (as claimed): a render whose primary table is unavailable shows exactly
\* one error in total, never calls the summarizer or a chart builder, and
\* shows nothing after the error.
C2_ExactlyOneError ==
    (pc = "done" /\ df = None) =>
        /\ ErrorCount(out) = 1
        /\ ~Contains(out, "create_district_summary")
        /\ ~Contains(out, "tab1_chart")
        /\ ~Contains(out, "tab2_heatmap")
        /\ out[Len(out)] \in ErrorElements

\* C2 (amended): a render whose primary table is unavailable shows exactly
\* two errors, the one of load_data and then the one of main, never calls the
\* summarizer or a chart builder, and shows nothing after the error of main.
C2_LoaderErrorThenMainError ==
    (pc = "done" /\ df = None) =>
        /\ out = << "header", "error_load", "error_main" >>
        /\ ErrorCount(out) = 2
        /\ district_summary = << >>
        /\ narration = None
        /\ heatmap_data = None

\* A halted render whose load_data call was served from the cache.
C2_Witness ==
    /\ pc = "done"
    /\ df = None
    /\ LastLoad.hit
    /\ Contains(out, "error_main")

\* The files as the load_data call of the current render found them: nothing
\* but that call touches a file while a render is under way.
PrimaryPresentAndParses == csv.st = "ok"

AnomalyArtifactUnavailable == anom.st # "ok" \/ pkl.st # "ok"

\* C3 (as claimed): when the primary file parses and an anomaly artifact is
\* missing or unreadable, a render that read the files produces the sidebar
\* and the complete first tab, and only the second tab shows an error.
C3_FirstTabSurvivesMissingArtifact ==
    (pc = "done" /\ ~LastLoad.hit /\ PrimaryPresentAndParses
                 /\ AnomalyArtifactUnavailable) =>
        /\ Contains(out, "sidebar")
        /\ ContainsAll(out, Tab1Elements)
        /\ Contains(out, "error_tab2")
        /\ ErrorCount(out) = 1

\* C9 (as claimed): when the primary table is available and the anomaly table
\* or the anomaly summary is None, the first tab has been rendered, the second
\* tab shows one error, and the pass ends with the footer.
C9_FooterAfterTab2Guard ==
    (pc = "done" /\ df # None
                 /\ (dbscan_anomalies = None \/ anomaly_summary = None)) =>
        /\ ContainsAll(out, Tab1Elements)
        /\ Contains(out, "error_tab2")
        /\ ErrorCount(out) = 1
        /\ EndsWith(out, FooterElements)

\* A step that is the call of load_data.
LoadStep == pc = "load" /\ pc' = "guard"

\* The step of the body that raises, as the files stand before the call.
ExtractionFails == zip.st = "corrupt" /\ csv.st = "absent"

PrimaryReadFails == csv.st = "corrupt" \/ (csv.st = "absent" /\ zip.st # "ok")

AnomalyReadFails == anom.st # "ok"

SummaryReadFails == pkl.st # "ok"

\* C4: a call of load_data that runs the body returns, when the extraction or
\* one of the three reads fails, the triple of None after one error, and the
\* three loaded artifacts without an error otherwise; no call returns a triple
\* whose primary table is None beside a loaded element, or whose primary
\* table is loaded beside an anomaly table that is None.
C4_AllOrNothing ==
    [][ LoadStep =>
          /\ ~(df' = None /\ (dbscan_anomalies' # None \/ anomaly_summary' # None))
          /\ ~(df' # None /\ dbscan_anomalies' = None)
          /\ cache = None =>
                IF \/ ExtractionFails \/ PrimaryReadFails
                   \/ AnomalyReadFails \/ SummaryReadFails
                THEN /\ << df', dbscan_anomalies', anomaly_summary' >> = NullTriple
                     /\ out' = out \o << "error_load" >>
                ELSE /\ df' # None
                     /\ dbscan_anomalies' = Some(anom.data[1])
                     /\ anomaly_summary' = pkl.data[1]
                     /\ out' = out
      ]_vars

\* The primary file and the anomaly table were read, the pickle could not be.
C4_Witness ==
    /\ pc = "guard"
    /\ ~LastLoad.hit
    /\ csv.st = "ok"
    /\ anom.st = "ok"
    /\ pkl.st # "ok"
    /\ df = None
    /\ Contains(out, "error_load")

\* C7: every call of load_data after the first returns the triple of the first
\* call and leaves every file as it is, whatever the files have become, and
\* the cache entry stays.
C7_CachedForever ==
    [][ (LoadStep /\ loads # << >>) =>
          /\ << df', dbscan_anomalies', anomaly_summary' >> = loads[1].value
          /\ UNCHANGED << zip, csv, anom, pkl >>
          /\ ~LastLoad'.extracted
          /\ cache # None
          /\ cache' = cache
      ]_vars

\* The first call failed, every file has since become readable, and the second
\* call still returned the triple of None.
C7_Witness ==
    /\ pc = "guard"
    /\ Len(loads) = 2
    /\ loads[1].value = NullTriple
    /\ df = None
    /\ csv.st = "ok" /\ anom.st = "ok" /\ pkl.st = "ok"

\* C10 (as claimed): every call of load_data extracts the archive exactly when
\* the archive exists and the CSV does not; an existing CSV is left as it is;
\* with neither file the call ends in the error outcome with the triple of None.
C10_ExtractsOnEveryCall ==
    [][ LoadStep =>
          /\ LastLoad'.extracted <=> (zip.st # "absent" /\ csv.st = "absent")
          /\ csv.st # "absent" => csv' = csv
          /\ (zip.st = "absent" /\ csv.st = "absent") =>
                /\ << df', dbscan_anomalies', anomaly_summary' >> = NullTriple
                /\ out' = out \o << "error_load" >>
      ]_vars

\* C10 (amended): a call of load_data whose body runs extracts the archive
\* exactly when the archive exists and the CSV does not, writing the archive's
\* copy; an existing CSV is left as it is; with neither file the call ends in
\* the error outcome. A call served from the cache extracts nothing.
C10_ExtractsWhenBodyRuns ==
    [][ LoadStep =>
          IF cache = None
          THEN /\ LastLoad'.extracted <=> (zip.st # "absent" /\ csv.st = "absent")
               /\ csv.st # "absent" => csv' = csv
               /\ (zip.st = "ok" /\ csv.st = "absent") => csv' = File(zip.data[1])
               /\ (zip.st # "ok" /\ csv.st = "absent") => csv' = csv
               /\ (zip.st = "absent" /\ csv.st = "absent") =>
                     /\ << df', dbscan_anomalies', anomaly_summary' >> = NullTriple
                     /\ out' = out \o << "error_load" >>
          ELSE /\ ~LastLoad'.extracted
               /\ csv' = csv
      ]_vars

\* The first call extracted the archive and read the extracted table.
C10_Witness ==
    /\ pc = "guard"
    /\ Len(loads) = 1
    /\ LastLoad.extracted
    /\ csv = File(ZipCallTable)
    /\ df = Some(ZipCallTable)

====
